---- MODULE Spec2Model ----
(***************************************************************************)
(* Model of DynArrayReducer (src/src/array/DynArrayReducer.ts) and its     *)
(* derived views (src/src/array/derived/DerivedArrayReducer.js).           *)
(*                                                                         *)
(* Arrays are objects with identity: an array is an id, `heap` maps each   *)
(* id to its contents.  Positions of the virtual ordering are 0-based as   *)
(* in the source; the element at position p of contents s is s[p + 1].     *)
(* Every action is one public operation run to completion, including the   *)
(* index update and the notifications it makes; `calls` is the list of     *)
(* handler invocations the last operation made, `last` names it.           *)
(***************************************************************************)
EXTENDS Integers, Sequences, FiniteSets

\* ---------------------------------------------------------------- bounds
MaxVal == 2
MaxLen == 2
MaxArrays == 2
MaxFilters == 2
MaxSubs == 3
MaxRegs == 3
MaxDerived == 1

\* ------------------------------------------------------------ vocabulary
Null == 0

Val == 1..MaxVal

ArrIds == 1..MaxArrays

RECURSIVE SeqsUpTo(_)
SeqsUpTo(n) ==
    IF n = 0 THEN {<< >>}
    ELSE LET shorter == SeqsUpTo(n - 1)
         IN shorter \cup {Append(s, v) : s \in {t \in shorter : Len(t) = n - 1}, v \in Val}

Items == SeqsUpTo(MaxLen)

FilterFns == {"even", "odd"}

CompareFns == {"desc", "zero"}

Handlers == {"a", "once"}

DerivedIds == 1..MaxDerived

NoIndex == [active |-> FALSE, pos |-> << >>]

VARIABLES heap, nAlloc, array, filters, compareFn, reversed, indexReversed,
          index, subscriptions, derived, regs, calls, last

vars == <<heap, nAlloc, array, filters, compareFn, reversed, indexReversed,
          index, subscriptions, derived, regs, calls, last>>

\* ------------------------------------------------------- pure functions
Reverse(s) == [i \in 1..Len(s) |-> s[Len(s) + 1 - i]]

Range(s) == {s[i] : i \in 1..Len(s)}

\* a filter predicate applied to an element
Accept(f, v) == IF f = "even" THEN v % 2 = 0 ELSE v % 2 = 1

\* a comparator applied to two elements: negative, zero or positive
Compare(c, a, b) == IF c = "desc" THEN b - a ELSE 0

\* Keys running one position past the end: 0 .. n
KeysPastEnd(n) == [i \in 1..(n + 1) |-> i - 1]

\* positions 0 .. n-1 in storage order
RECURSIVE Keys(_)
Keys(n) == IF n = 0 THEN << >> ELSE Append(Keys(n - 1), n - 1)

\* contents of the backing sequence, << >> when the store is absent
Contents(h, a) == IF a = Null THEN << >> ELSE h[a]

NoCompare == "none"

\* element at 0-based position p (undefined is modelled by Null)
Elem(arr, p) == IF p + 1 \in DOMAIN arr THEN arr[p + 1] ELSE Null

\* ------------------------------------------------ Indexer (virtual ordering)
\* ordering of two positions: the comparator applied to the elements there
sortFn(c, arr, a, b) == Compare(c, Elem(arr, a), Elem(arr, b))

\* retain the candidate positions whose element every filter accepts
reduceImpl(arr, f, candidates) ==
    SelectSeq(candidates, LAMBDA p : \A i \in 1..Len(f) : Accept(f[i], Elem(arr, p)))

\* InsertSorted placing p before the positions that compare equal to it
InsertSortedUnstable(sorted, p, c, arr) ==
    LET after == {i \in 1..Len(sorted) : sortFn(c, arr, sorted[i], p) >= 0}
        k == IF after = {} THEN Len(sorted) + 1
             ELSE CHOOSE i \in after : \A j \in after : i <= j
    IN SubSeq(sorted, 1, k - 1) \o <<p>> \o SubSeq(sorted, k, Len(sorted))

\* insert p before the first position that sorts strictly after it
InsertSorted(sorted, p, c, arr) ==
    LET after == {i \in 1..Len(sorted) : sortFn(c, arr, sorted[i], p) > 0}
        k == IF after = {} THEN Len(sorted) + 1
             ELSE CHOOSE i \in after : \A j \in after : i <= j
    IN SubSeq(sorted, 1, k - 1) \o <<p>> \o SubSeq(sorted, k, Len(sorted))

RECURSIVE StableSortFrom(_, _, _, _)
StableSortFrom(ps, n, c, arr) ==
    IF n = 0 THEN << >>
    ELSE InsertSorted(StableSortFrom(ps, n - 1, c, arr), ps[n], c, arr)

StableSort(ps, c, arr) == StableSortFrom(ps, Len(ps), c, arr)

\* rebuild of a virtual ordering over the candidate positions
Rebuild(arr, f, c, candidates) ==
    IF Len(f) = 0 /\ c = NoCompare THEN NoIndex
    ELSE LET kept == IF Len(f) > 0 THEN reduceImpl(arr, f, candidates) ELSE candidates
         IN [active |-> TRUE,
             pos |-> IF c # NoCompare THEN StableSort(kept, c, arr) ELSE kept]

\* positions a view shows, in stored order (identity when inactive)
VisiblePos(idx, arr) == IF idx.active THEN idx.pos ELSE Keys(Len(arr))

\* iteration of the index API: stored order, flipped when the index is reversed
IndexIter(idx, irev) == IF irev THEN Reverse(idx.pos) ELSE idx.pos

\* --------------------------------------------------- DynArrayReducer getters
\* Length read from the backing sequence whatever the index
LengthOfArray(h, a, idx) == IF a # Null THEN Len(h[a]) ELSE 0

Length(h, a, idx) ==
    IF idx.active THEN Len(idx.pos)
    ELSE IF a # Null THEN Len(h[a]) ELSE 0

\* Iterate with the inactive branch always walking forward
IterateForward(h, a, idx, rev, irev) ==
    LET arr == Contents(h, a)
    IN IF a = Null \/ Len(arr) = 0 THEN << >>
       ELSE IF idx.active
            THEN LET it == IndexIter(idx, irev)
                 IN [i \in 1..Len(it) |-> Elem(arr, it[i])]
            ELSE arr

\* Iterate without the index branch: the backing sequence whatever the index
IterateWholeArray(h, a, idx, rev, irev) ==
    LET arr == Contents(h, a)
    IN IF a = Null \/ Len(arr) = 0 THEN << >>
       ELSE IF rev THEN Reverse(arr) ELSE arr

\* [Symbol.iterator]: lines 289-310
Iterate(h, a, idx, rev, irev) ==
    LET arr == Contents(h, a)
    IN IF a = Null \/ Len(arr) = 0 THEN << >>
       ELSE IF idx.active
            THEN LET it == IndexIter(idx, irev)
                 IN [i \in 1..Len(it) |-> Elem(arr, it[i])]
            ELSE IF rev THEN Reverse(arr) ELSE arr

\* ------------------------------------------------------ subscription fan-out
\* a subscription entry: the handler, and as a label the subscribe call whose
\* registration the entry stands for.  The source stores the handler alone;
\* entries of one handler are the same value there, so the labels of two such
\* entries may be exchanged without changing anything the program can read.
Sub(h, r) == [h |-> h, reg |-> r]

\* the l-th smallest element of a set of registrations
Nth(L, l) == CHOOSE x \in L : Cardinality({y \in L : y <= x}) = l

\* the labels left to the entries of handler h when the closure of subscribe
\* call r has dropped one of them: r is the registration that is gone when an
\* entry stood for it, otherwise the one of the dropped entry; the entries
\* that stay keep the other labels in list order
Relabel(subs, h, r, k) ==
    LET hits == {i \in 1..Len(subs) : subs[i].h = h}
        had == {subs[i].reg : i \in hits}
        left == had \ {IF r \in had THEN r ELSE subs[k].reg}
    IN [i \in 1..Len(subs) |->
           IF i \in hits /\ i # k
           THEN Sub(h, Nth(left, Cardinality({j \in hits : j < i /\ j # k}) + 1))
           ELSE subs[i]]

\* the unsubscribe closure of subscribe call r for handler h: findIndex takes
\* the first entry whose handler is h, splice drops it
Unsub(subs, h, r) ==
    LET hits == {i \in 1..Len(subs) : subs[i].h = h}
    IN IF hits = {} THEN subs
       ELSE LET k == CHOOSE i \in hits : \A j \in hits : i <= j
                relabelled == Relabel(subs, h, r, k)
            IN SubSeq(relabelled, 1, k - 1) \o SubSeq(relabelled, k + 1, Len(subs))

\* what a handler does when a notification invokes it: "once" calls the
\* unsubscribe function its subscribe call returned, every other handler only
\* reads the view
HandlerEffect(subs, e) == IF e.h = "once" THEN Unsub(subs, e.h, e.reg) ELSE subs

\* one handler invocation: which view, which entry, what the handler can read
Event(view, e, seen) == [view |-> view, h |-> e.h, reg |-> e.reg, seen |-> seen]

\* for (cntr = 0; cntr < subscriptions.length; cntr++) subscriptions[cntr](this)
RECURSIVE updateSubscribers(_, _, _, _, _)
updateSubscribers(view, subs, cntr, log, seen) ==
    IF cntr >= Len(subs) THEN [subs |-> subs, log |-> log]
    ELSE LET e == subs[cntr + 1]
         IN updateSubscribers(view, HandlerEffect(subs, e), cntr + 1,
                              Append(log, Event(view, e, seen)), seen)

\* ------------------------------------------------------------ derived views
\* the store slot a derived view keeps in #array: the parent's own slot
HostSlot == [shared |-> TRUE, id |-> Null]

NoDerived ==
    [exists |-> FALSE, array |-> HostSlot, filters |-> << >>, compareFn |-> NoCompare,
     index |-> NoIndex, subscriptions |-> << >>]

\* derivedArray keeping the sequence the slot held when the view was made
derivedArrayCopied(a) == [shared |-> FALSE, id |-> a]

\* DerivedArrayReducer.js line 53: this.#array = array, the slot itself
derivedArray(a) == HostSlot

\* get data() of a derived view (line 69): this.#array[0], read when asked
derivedData(slot, a) == IF slot.shared THEN a ELSE slot.id

\* DerivedArrayReducer.js line 55: the view's Indexer is made from the store
\* slot and the notify callback alone, as the parent's is (DynArrayReducer.ts
\* line 118); no reference to the parent's index reaches it, so its rebuild
\* enumerates the positions of the backing sequence
DerivedCandidates(idx, arr) == Keys(Len(arr))

\* positions a derived view shows: its own ordering when active, else the
\* positions of the backing sequence
DerivedPos(didx, idx, arr) == IF didx.active THEN didx.pos ELSE DerivedCandidates(idx, arr)

\* Seen when the store has been truncated and not yet refilled
SeenTruncated(h, a, idx, rev, irev, der) ==
    [len |-> 0,
     iter |-> << >>,
     dpos |-> [d \in DerivedIds |->
                 DerivedPos(der[d].index, idx, Contents(h, derivedData(der[d].array, a)))]]

\* what a handler can read when it is invoked: the parent's length and
\* iterated sequence and the positions each derived view shows
Seen(h, a, idx, rev, irev, der) ==
    [len |-> Length(h, a, idx),
     iter |-> Iterate(h, a, idx, rev, irev),
     dpos |-> [d \in DerivedIds |->
                 DerivedPos(der[d].index, idx, Contents(h, derivedData(der[d].array, a)))]]

\* update of one derived view's Indexer: rebuild over the sequence in the
\* view's store slot, then notify the derived view's subscribers
DerivedIndexUpdate(d, der, log, h, a, idx, rev, irev) ==
    LET arr == Contents(h, derivedData(der[d].array, a))
        built == [der EXCEPT ![d].index =
                     Rebuild(arr, der[d].filters, der[d].compareFn,
                             DerivedCandidates(idx, arr))]
        n == updateSubscribers(d, built[d].subscriptions, 0, log,
                               Seen(h, a, idx, rev, irev, built))
    IN [der |-> [built EXCEPT ![d].subscriptions = n.subs], log |-> n.log]

\* AdapterDerived.update: every registered derived view, one after the other
RECURSIVE DerivedUpdate(_, _, _, _, _, _, _, _)
DerivedUpdate(d, der, log, h, a, idx, rev, irev) ==
    IF d > MaxDerived THEN [der |-> der, log |-> log]
    ELSE IF ~der[d].exists THEN DerivedUpdate(d + 1, der, log, h, a, idx, rev, irev)
    ELSE LET r == DerivedIndexUpdate(d, der, log, h, a, idx, rev, irev)
         IN DerivedUpdate(d + 1, r.der, r.log, h, a, idx, rev, irev)

\* IndexUpdate without the cascade to the derived views
IndexUpdateNoCascade(h, a, f, c, rev, irev, subs, der) ==
    LET idx == Rebuild(Contents(h, a), f, c, Keys(Len(Contents(h, a))))
        n == updateSubscribers(0, subs, 0, << >>, Seen(h, a, idx, rev, irev, der))
    IN [index |-> idx, subscriptions |-> n.subs, derived |-> der, calls |-> n.log]

\* Indexer.update of the parent view: rebuild the ordering, notify the
\* parent's subscribers, then update the derived views
IndexUpdate(h, a, f, c, rev, irev, subs, der) ==
    LET idx == Rebuild(Contents(h, a), f, c, Keys(Len(Contents(h, a))))
        n == updateSubscribers(0, subs, 0, << >>, Seen(h, a, idx, rev, irev, der))
        dd == DerivedUpdate(1, der, n.log, h, a, idx, rev, irev)
    IN [index |-> idx, subscriptions |-> n.subs, derived |-> dd.der, calls |-> dd.log]

\* ------------------------------------------------------------------ setData
NullData == [kind |-> "null", id |-> Null, items |-> << >>]

ArrayData(i) == [kind |-> "array", id |-> i, items |-> << >>]

IterData(s) == [kind |-> "iter", id |-> Null, items |-> s]

\* arguments a caller can pass: null, an array it holds, a non-array iterable
DataInputs(n) ==
    {NullData} \cup {ArrayData(i) : i \in 1..n} \cup {IterData(s) : s \in Items}

\* the elements the argument yields when it is iterated over heap h
ItemsOf(h, d) == IF d.kind = "array" THEN h[d.id] ELSE d.items

\* setDataStore with the old sequence emptied before it is replaced
setDataStoreEmptiesOld(h, n, a, d, replace) ==
    IF a = Null \/ replace
    THEN IF d.kind = "null" THEN [heap |-> h, nAlloc |-> n, array |-> a]
         ELSE LET emptied == IF a = Null THEN h ELSE [h EXCEPT ![a] = << >>]
              IN IF d.kind = "array"
                 THEN [heap |-> emptied, nAlloc |-> n, array |-> d.id]
                 ELSE [heap |-> [emptied EXCEPT ![n + 1] = d.items],
                       nAlloc |-> n + 1, array |-> n + 1]
    ELSE IF d.kind = "null" THEN [heap |-> h, nAlloc |-> n, array |-> Null]
         ELSE LET truncated == [h EXCEPT ![a] = << >>]
              IN [heap |-> [truncated EXCEPT ![a] = ItemsOf(truncated, d)],
                  nAlloc |-> n, array |-> a]

\* lines 224-249: the effect of setData on the backing store
setDataStore(h, n, a, d, replace) ==
    IF a = Null \/ replace
    THEN IF d.kind = "null" THEN [heap |-> h, nAlloc |-> n, array |-> a]
         ELSE IF d.kind = "array" THEN [heap |-> h, nAlloc |-> n, array |-> d.id]
         ELSE [heap |-> [h EXCEPT ![n + 1] = d.items], nAlloc |-> n + 1, array |-> n + 1]
    ELSE IF d.kind = "null" THEN [heap |-> h, nAlloc |-> n, array |-> Null]
         ELSE LET truncated == [h EXCEPT ![a] = << >>]
              IN [heap |-> [truncated EXCEPT ![a] = ItemsOf(truncated, d)],
                  nAlloc |-> n, array |-> a]

\* a copy is made only in the first branch, for a non-array iterable
Allocates(a, d, replace) == (a = Null \/ replace) /\ d.kind = "iter"

Op(name, arg) == [op |-> name, arg |-> arg]

TypeOK ==
    /\ nAlloc \in 0..MaxArrays
    /\ array \in {Null} \cup 1..nAlloc
    /\ heap \in [ArrIds -> Items]
    /\ \A i \in 1..Len(filters) : filters[i] \in FilterFns
    /\ compareFn \in CompareFns \cup {NoCompare}
    /\ reversed \in BOOLEAN /\ indexReversed \in BOOLEAN
    /\ index.active \in BOOLEAN
    /\ Len(subscriptions) <= MaxSubs
    /\ Len(regs) <= MaxRegs

Init ==
    /\ \E withData \in BOOLEAN, s \in Items :
          /\ nAlloc = (IF withData THEN 1 ELSE 0)
          /\ array = (IF withData THEN 1 ELSE Null)
          /\ heap = [i \in ArrIds |-> IF withData /\ i = 1 THEN s ELSE << >>]
          /\ withData \/ s = << >>
    /\ filters = << >>
    /\ compareFn = NoCompare
    /\ reversed = FALSE
    /\ indexReversed = FALSE
    /\ index = NoIndex
    /\ subscriptions = << >>
    /\ derived = [d \in DerivedIds |-> NoDerived]
    /\ regs = << >>
    /\ calls = << >>
    /\ last = Op("new", << >>)

\* setData(data, replace): lines 212-253
setData(d, replace) ==
    /\ Allocates(array, d, replace) => nAlloc < MaxArrays
    /\ LET st == setDataStore(heap, nAlloc, array, d, replace)
           u == IndexUpdate(st.heap, st.array, filters, compareFn, reversed,
                            indexReversed, subscriptions, derived)
       IN /\ heap' = st.heap
          /\ nAlloc' = st.nAlloc
          /\ array' = st.array
          /\ index' = u.index
          /\ subscriptions' = u.subscriptions
          /\ derived' = u.derived
          /\ calls' = u.calls
          /\ last' = Op("setData", [kind |-> d.kind, id |-> d.id, replace |-> replace,
                                    was |-> array])
    /\ UNCHANGED <<filters, compareFn, reversed, indexReversed, regs>>

SetData == \E d \in DataInputs(nAlloc), replace \in BOOLEAN : setData(d, replace)

\* setData(items) with a non-array iterable and the default replace = false
SetDataItems == \E s \in Items : setData(IterData(s), FALSE)

\* an argument that is neither null nor iterable
ValueData == [kind |-> "value", id |-> Null, items |-> << >>]

\* lines 214-222: setData throws when data is non-null and not iterable, or
\* when replace is not a boolean
setDataThrows(d, replaceIsBoolean) == d.kind = "value" \/ ~replaceIsBoolean

\* setDataThrown with the store cleared before the arguments are checked
setDataThrownCleared(h, n, a) == [heap |-> h, nAlloc |-> n, array |-> Null]

\* the store when the exception leaves setData: the checks precede line 224,
\* nothing has been read or assigned
setDataThrown(h, n, a) == [heap |-> h, nAlloc |-> n, array |-> a]

\* setData(data, replace) with an argument it rejects: lines 212-222
SetDataThrows ==
    \E d \in DataInputs(nAlloc) \cup {ValueData}, replaceIsBoolean \in BOOLEAN :
        /\ setDataThrows(d, replaceIsBoolean)
        /\ LET st == setDataThrown(heap, nAlloc, array)
           IN heap' = st.heap /\ nAlloc' = st.nAlloc /\ array' = st.array
        /\ calls' = << >>
        /\ last' = Op("setData.throws", [kind |-> d.kind, replaceIsBoolean |-> replaceIsBoolean])
        /\ UNCHANGED <<filters, compareFn, reversed, indexReversed, index,
                       subscriptions, derived, regs>>

\* index.update() of the parent with new registries and flags, data untouched
Recompute(f, c, rev, irev) ==
    LET u == IndexUpdate(heap, array, f, c, rev, irev, subscriptions, derived)
    IN /\ filters' = f
       /\ compareFn' = c
       /\ reversed' = rev
       /\ indexReversed' = irev
       /\ index' = u.index
       /\ subscriptions' = u.subscriptions
       /\ derived' = u.derived
       /\ calls' = u.calls
       /\ UNCHANGED <<heap, nAlloc, array, regs>>

\* index.update(true): a forced recompute asked for through the index API
IndexUpdateForced ==
    /\ Recompute(filters, compareFn, reversed, indexReversed)
    /\ last' = Op("index.update", [force |-> TRUE])

\* reversedFlags without the assignment to the index
reversedFlagsHostOnly(r) == [reversed |-> r, indexReversed |-> indexReversed]

\* lines 197-198: the two flags the reversed setter assigns
reversedFlags(r) == [reversed |-> r, indexReversed |-> r]

\* set reversed(reversed): lines 190-202
SetReversed ==
    \E r \in BOOLEAN :
        /\ Recompute(filters, compareFn, reversedFlags(r).reversed,
                     reversedFlags(r).indexReversed)
        /\ last' = Op("reversed", [value |-> r])

\* reversedThrown with the host flag flipped before the argument is checked
reversedThrownFlipped(rev, irev) == [reversed |-> ~rev, indexReversed |-> irev]

\* the flags when the exception leaves the setter: the check at lines 192-195
\* precedes both assignments
reversedThrown(rev, irev) == [reversed |-> rev, indexReversed |-> irev]

\* set reversed(value) with a value that is not a boolean: lines 190-195
SetReversedThrows ==
    /\ reversed' = reversedThrown(reversed, indexReversed).reversed
    /\ indexReversed' = reversedThrown(reversed, indexReversed).indexReversed
    /\ calls' = << >>
    /\ last' = Op("reversed.throws", << >>)
    /\ UNCHANGED <<heap, nAlloc, array, filters, compareFn, index, subscriptions,
                   derived, regs>>

\* filters.add(f)
FiltersAdd ==
    \E f \in FilterFns :
        /\ Len(filters) < MaxFilters
        /\ Recompute(Append(filters, f), compareFn, reversed, indexReversed)
        /\ last' = Op("filters.add", [view |-> 0, f |-> f])

\* filters.remove(f): every entry of that predicate
FiltersRemove ==
    \E f \in Range(filters) :
        /\ Recompute(SelectSeq(filters, LAMBDA g : g # f), compareFn, reversed,
                     indexReversed)
        /\ last' = Op("filters.remove", [view |-> 0, f |-> f])

\* filters.clear()
FiltersClear ==
    /\ Recompute(<< >>, compareFn, reversed, indexReversed)
    /\ last' = Op("filters.clear", [view |-> 0])

\* sort.set(compareFn)
SortSet ==
    \E c \in CompareFns :
        /\ Recompute(filters, c, reversed, indexReversed)
        /\ last' = Op("sort.set", [view |-> 0, c |-> c])

\* sort.clear(), the same as sort.set(null)
SortClear ==
    /\ Recompute(filters, NoCompare, reversed, indexReversed)
    /\ last' = Op("sort.clear", [view |-> 0])

\* ------------------------------------------------------ subscribe / unsubscribe
\* a handler with an effect is subscribed by one subscribe call only: its
\* unsubscribe function is the one that call returned
MaySubscribe(h) ==
    /\ Len(regs) < MaxRegs
    /\ h = "once" => \A r \in 1..Len(regs) : regs[r].h # "once"

Reg(view, h) == [view |-> view, h |-> h, dead |-> FALSE]

\* line 263: add the handler to the array of subscribers
subscribePush(subs, h, r) == Append(subs, Sub(h, r))

\* subscribeCall without the call
subscribeCallNone(view, h, r, seen) == << >>

\* line 265: call the handler with the current value
subscribeCall(view, h, r, seen) == <<Event(view, Sub(h, r), seen)>>

\* subscribe(handler): DynArrayReducer.ts lines 261-273
subscribe(h) ==
    /\ MaySubscribe(h)
    /\ Len(subscriptions) < MaxSubs
    /\ subscriptions' = subscribePush(subscriptions, h, Len(regs) + 1)
    /\ calls' = subscribeCall(0, h, Len(regs) + 1,
                    Seen(heap, array, index, reversed, indexReversed, derived))
    /\ regs' = Append(regs, Reg(0, h))
    /\ last' = Op("subscribe", [view |-> 0, h |-> h, reg |-> Len(regs) + 1])
    /\ UNCHANGED <<heap, nAlloc, array, filters, compareFn, reversed,
                   indexReversed, index, derived>>

Subscribe == \E h \in Handlers : subscribe(h)

\* subscribe with a handler that only reads the view
SubscribeReader == subscribe("a")

\* subscribe with a second handler that only reads the view
SubscribeOther == subscribe("b")

\* subscribe called by the view's first subscriber, a handler that only reads
SubscribeFirst == subscriptions = << >> /\ subscribe("a")

\* the function returned by subscribe call r: DynArrayReducer.ts lines 268-272
Unsubscribe ==
    \E r \in 1..Len(regs) :
        /\ regs[r].view = 0
        /\ subscriptions' = Unsub(subscriptions, regs[r].h, r)
        /\ calls' = << >>
        /\ last' = Op("unsubscribe", [view |-> 0, h |-> regs[r].h, reg |-> r])
        /\ UNCHANGED <<heap, nAlloc, array, filters, compareFn, reversed,
                       indexReversed, index, derived, regs>>

\* ------------------------------------------------- derived view operations
\* filters a caller seeds a derived view with: none or one predicate
DerivedConfigs == {<< >>} \cup {<<f>> : f \in FilterFns}

\* derived.create(name, { filters }): a DerivedArrayReducer over the parent's
\* store slot (DerivedArrayReducer.js lines 51-58) with the configured
\* filters added, which updates its index; nobody is subscribed yet
DerivedCreate ==
    \E d \in DerivedIds, cfg \in DerivedConfigs :
        /\ ~derived[d].exists
        /\ derived' = DerivedIndexUpdate(d,
                          [derived EXCEPT ![d] = [NoDerived EXCEPT !.exists = TRUE,
                                                                   !.array = derivedArray(array),
                                                                   !.filters = cfg]],
                          << >>, heap, array, index, reversed, indexReversed).der
        /\ calls' = << >>
        /\ last' = Op("derived.create", [view |-> d, filters |-> cfg])
        /\ UNCHANGED <<heap, nAlloc, array, filters, compareFn, reversed,
                       indexReversed, index, subscriptions, regs>>

\* derived.delete(name): the view and its subscriber list are released
DerivedDelete ==
    \E d \in DerivedIds :
        /\ derived[d].exists
        /\ derived' = [derived EXCEPT ![d] = NoDerived]
        /\ regs' = [r \in 1..Len(regs) |->
                      IF regs[r].view = d THEN [regs[r] EXCEPT !.dead = TRUE] ELSE regs[r]]
        /\ calls' = << >>
        /\ last' = Op("derived.delete", [view |-> d])
        /\ UNCHANGED <<heap, nAlloc, array, filters, compareFn, reversed,
                       indexReversed, index, subscriptions>>

\* index.update() of derived view d with new registries
DerivedRecompute(d, f, c) ==
    LET u == DerivedIndexUpdate(d, [derived EXCEPT ![d].filters = f, ![d].compareFn = c],
                                << >>, heap, array, index, reversed, indexReversed)
    IN /\ derived' = u.der
       /\ calls' = u.log
       /\ UNCHANGED <<heap, nAlloc, array, filters, compareFn, reversed,
                      indexReversed, index, subscriptions, regs>>

\* filters.add(f) on a derived view
DerivedFiltersAdd ==
    \E d \in DerivedIds, f \in FilterFns :
        /\ derived[d].exists
        /\ Len(derived[d].filters) < MaxFilters
        /\ DerivedRecompute(d, Append(derived[d].filters, f), derived[d].compareFn)
        /\ last' = Op("filters.add", [view |-> d, f |-> f])

\* filters.clear() on a derived view
DerivedFiltersClear ==
    \E d \in DerivedIds :
        /\ derived[d].exists
        /\ DerivedRecompute(d, << >>, derived[d].compareFn)
        /\ last' = Op("filters.clear", [view |-> d])

\* sort.set(compareFn | null) on a derived view
DerivedSortSet ==
    \E d \in DerivedIds, c \in CompareFns \cup {NoCompare} :
        /\ derived[d].exists
        /\ DerivedRecompute(d, derived[d].filters, c)
        /\ last' = Op("sort.set", [view |-> d, c |-> c])

\* line 95: add the handler to the array of subscribers
derivedSubscribePush(subs, h, r) == Append(subs, Sub(h, r))

\* line 97: call the handler with the current value
derivedSubscribeCall(view, h, r, seen) == <<Event(view, Sub(h, r), seen)>>

\* subscribe(handler): DerivedArrayReducer.js lines 93-105
derivedSubscribe(d, h) ==
    /\ derived[d].exists
    /\ MaySubscribe(h)
    /\ Len(derived[d].subscriptions) < MaxSubs
    /\ derived' = [derived EXCEPT ![d].subscriptions =
                      derivedSubscribePush(@, h, Len(regs) + 1)]
    /\ calls' = derivedSubscribeCall(d, h, Len(regs) + 1,
                    Seen(heap, array, index, reversed, indexReversed, derived))
    /\ regs' = Append(regs, Reg(d, h))
    /\ last' = Op("subscribe", [view |-> d, h |-> h, reg |-> Len(regs) + 1])
    /\ UNCHANGED <<heap, nAlloc, array, filters, compareFn, reversed,
                   indexReversed, index, subscriptions>>

DerivedSubscribe == \E d \in DerivedIds, h \in Handlers : derivedSubscribe(d, h)

\* subscribe on a derived view with a handler that only reads the view
DerivedSubscribeReader == \E d \in DerivedIds : derivedSubscribe(d, "a")

\* subscribe called by a derived view's first subscriber, a reading handler
DerivedSubscribeFirst ==
    \E d \in DerivedIds : derived[d].subscriptions = << >> /\ derivedSubscribe(d, "a")

\* the unsubscribe closure of a derived view (DerivedArrayReducer.js lines
\* 100-104): the same findIndex and splice as the parent's
DerivedUnsub(subs, h, r) ==
    LET hits == {i \in 1..Len(subs) : subs[i].h = h}
    IN IF hits = {} THEN subs
       ELSE LET k == CHOOSE i \in hits : \A j \in hits : i <= j
                relabelled == Relabel(subs, h, r, k)
            IN SubSeq(relabelled, 1, k - 1) \o SubSeq(relabelled, k + 1, Len(subs))

\* the function returned by subscribe call r on a derived view
DerivedUnsubscribe ==
    \E r \in 1..Len(regs) :
        /\ regs[r].view \in DerivedIds
        /\ ~regs[r].dead
        /\ derived' = [derived EXCEPT ![regs[r].view].subscriptions =
                          DerivedUnsub(@, regs[r].h, r)]
        /\ calls' = << >>
        /\ last' = Op("unsubscribe", [view |-> regs[r].view, h |-> regs[r].h, reg |-> r])
        /\ UNCHANGED <<heap, nAlloc, array, filters, compareFn, reversed,
                       indexReversed, index, subscriptions, regs>>

\* ----------------------------------------------------------- specifications
Next ==
    \/ SetData
    \/ SetDataThrows
    \/ SetReversed
    \/ SetReversedThrows
    \/ IndexUpdateForced
    \/ FiltersAdd
    \/ FiltersRemove
    \/ FiltersClear
    \/ SortSet
    \/ SortClear
    \/ Subscribe
    \/ Unsubscribe
    \/ DerivedCreate
    \/ DerivedDelete
    \/ DerivedFiltersAdd
    \/ DerivedFiltersClear
    \/ DerivedSortSet
    \/ DerivedSubscribe
    \/ DerivedUnsubscribe

Spec == Init /\ [][Next]_vars

\* the view alone: data, filters, sort and reversal
NextView ==
    \/ SetData
    \/ SetReversed
    \/ FiltersAdd
    \/ FiltersRemove
    \/ FiltersClear
    \/ SortSet
    \/ SortClear

SpecView == Init /\ [][NextView]_vars

\* subscribers of the parent view and of derived views
NextSubs ==
    \/ SetDataItems
    \/ Subscribe
    \/ Unsubscribe
    \/ DerivedCreate
    \/ DerivedDelete
    \/ DerivedSubscribe
    \/ DerivedUnsubscribe

SpecSubs == Init /\ [][NextSubs]_vars

\* derived views under every operation that recomputes the parent
NextDerived ==
    \/ SetDataItems
    \/ SetReversed
    \/ FiltersAdd
    \/ SortSet
    \/ SubscribeFirst
    \/ DerivedCreate
    \/ DerivedSubscribeFirst

SpecDerived == Init /\ [][NextDerived]_vars

\* the backing store as seen through derived views under every kind of setData
NextData ==
    \/ SetData
    \/ DerivedCreate
    \/ DerivedDelete

SpecData == Init /\ [][NextData]_vars

\* calls that throw among calls that succeed
NextErrors ==
    \/ SetDataItems
    \/ SetDataThrows
    \/ SetReversed
    \/ SetReversedThrows
    \/ FiltersAdd
    \/ SubscribeReader

SpecErrors == Init /\ [][NextErrors]_vars

\* notifications of the parent view's subscribers
NextNotify ==
    \/ SetDataItems
    \/ SetReversed
    \/ IndexUpdateForced
    \/ FiltersAdd
    \/ Subscribe
    \/ Unsubscribe

SpecNotify == Init /\ [][NextNotify]_vars

\* two reading handlers subscribed and unsubscribed between notifications
NextOrder ==
    \/ SubscribeReader
    \/ SubscribeOther
    \/ Unsubscribe
    \/ IndexUpdateForced

SpecOrder == Init /\ [][NextOrder]_vars

\* ------------------------------------------------------------------- claims
\* C1 (as claimed): setData(newItems, false) with non-null newItems on a view
\* whose store holds sequence A leaves view.data the same sequence A, and A's
\* contents are then the elements newItems held when the call was made, also
\* when newItems is A itself.
C1_InPlaceHoldsNewItems ==
    [][\A d \in DataInputs(nAlloc) :
          (array # Null /\ d.kind # "null" /\ setData(d, FALSE))
              => (array' = array /\ heap'[array] = ItemsOf(heap, d))]_vars

\* C2 (as claimed): setData(null, replace) leaves the store absent, the length
\* 0 and the iteration empty, for both values of replace and every prior store.
C2_NullClearsStore ==
    [][\A replace \in BOOLEAN :
          setData(NullData, replace)
              => /\ array' = Null
                 /\ Length(heap', array', index') = 0
                 /\ Iterate(heap', array', index', reversed', indexReversed') = << >>]_vars

\* the last operation was setData(newItems, true) with non-null newItems on a
\* view whose store held a sequence
ReplacedStore(l) ==
    l.op = "setData" /\ l.arg.replace /\ l.arg.kind # "null" /\ l.arg.was # Null

\* what a replacing call does: A keeps its contents, and the store becomes
\* the argument itself when it is an array, otherwise an array that did not
\* exist before, holding the argument's elements
ReplaceInstalls ==
    \A d \in DataInputs(nAlloc) :
        (array # Null /\ d.kind # "null" /\ setData(d, TRUE))
            => /\ heap'[array] = heap[array]
               /\ IF d.kind = "array" THEN array' = d.id
                  ELSE array' \notin 1..nAlloc /\ heap'[array'] = d.items

\* C3 (as claimed): after setData(newItems, true) on a view whose store held
\* A, A's contents are changed neither by that call nor by the setData call
\* that follows it, and view.data is newItems itself or a fresh copy.
C3_ReplacedNeverChanges ==
    [][/\ ReplaceInstalls
       /\ ReplacedStore(last) => heap'[last.arg.was] = heap[last.arg.was]]_vars

\* C3 (amended): the replacing call leaves A's contents unchanged and installs
\* newItems itself or a fresh copy; any later setData call changes no sequence
\* other than the one that is the view's backing store when it is called, so A
\* changes again only once it has been installed as the backing store again.
C3_ReplaceLeavesOldSequence ==
    [][/\ ReplaceInstalls
       /\ \A i \in 1..nAlloc : i # array => heap'[i] = heap[i]]_vars

\* C3 witness: a replacing call installed a fresh copy with other contents and
\* the replaced sequence A still holds its elements
C3_Witness ==
    /\ ReplacedStore(last)
    /\ last.arg.kind = "iter"
    /\ array # last.arg.was
    /\ heap[last.arg.was] # << >>
    /\ heap[array] # heap[last.arg.was]

\* ---------------------------------------------------------------- the view
\* how many times v occurs in s
Count(s, v) == Cardinality({i \in 1..Len(s) : s[i] = v})

\* the sequence the view iterates in the current state
Visible == Iterate(heap, array, index, reversed, indexReversed)

Backing == Contents(heap, array)

AcceptedByAll(v) == \A i \in 1..Len(filters) : Accept(filters[i], v)

\* C7: an element of the backing store is visible iff every registered filter
\* accepts it: each accepted value is iterated as often as the store holds it,
\* each rejected value never.
C7_FilterConjunction ==
    \A v \in Val :
        Count(Visible, v) = IF AcceptedByAll(v) THEN Count(Backing, v) ELSE 0

\* C7 witness: two filters are registered, setData has put an accepted and a
\* rejected element into the store, and only the accepted one is iterated
C7_Witness ==
    /\ last.op = "setData"
    /\ Len(filters) = 2
    /\ \E v \in Range(Backing) : AcceptedByAll(v)
    /\ \E v \in Range(Backing) : ~AcceptedByAll(v)
    /\ Len(Visible) = 1

C9_ReversalFlipsOrderOnly ==
    [][last'.op = "reversed" =>
          /\ reversed' = last'.arg.value
          /\ index' = index
          /\ Length(heap', array', index') = Length(heap, array, index)
          /\ Visible' = IF reversed' # reversed THEN Reverse(Visible) ELSE Visible]_vars

\* C9 witness: reversed was assigned true while the index is active, and the
\* view iterates two different elements, last stored position first
C9_Witness ==
    /\ last.op = "reversed"
    /\ reversed
    /\ index.active
    /\ Len(Visible) = 2
    /\ Visible[1] # Visible[2]
    /\ Visible = Reverse([i \in 1..Len(index.pos) |-> Elem(Backing, index.pos[i])])

\* ------------------------------------------------------------ subscriptions
\* the handler list of a view (0 is the parent), now and after the step
SubsOf(v) == IF v = 0 THEN subscriptions ELSE derived[v].subscriptions

SubsOfNext(v) == IF v = 0 THEN subscriptions' ELSE derived'[v].subscriptions

HandlersOf(subs) == [i \in 1..Len(subs) |-> subs[i].h]

\* how often the operation invoked the entry registered by subscribe call r
Invocations(log, v, r) ==
    Cardinality({k \in 1..Len(log) : log[k].view = v /\ log[k].reg = r})

\* C4 (as claimed): a setData call invokes every handler subscribed to the
\* view when it is called exactly once, once for each of its registrations.
C4_SetDataInvokesEachOnce ==
    [][last'.op = "setData" =>
          \A i \in 1..Len(subscriptions) :
              Invocations(calls', 0, subscriptions[i].reg) = 1]_vars

\* C5: subscribe(h) on the parent or a derived view appends h to that view's
\* handler list, invokes h once with that view and nothing else, and leaves
\* every ordering, the data and the other handler lists as they were.
C5_SubscribeInvokesOnce ==
    [][last'.op = "subscribe" =>
          LET a == last'.arg
          IN /\ SubsOfNext(a.view) = Append(SubsOf(a.view), [h |-> a.h, reg |-> a.reg])
             /\ Len(calls') = 1
             /\ calls'[1].view = a.view /\ calls'[1].h = a.h /\ calls'[1].reg = a.reg
             /\ calls'[1].seen =
                    Seen(heap, array, index, reversed, indexReversed, derived)
             /\ \A v \in {0} \cup DerivedIds : v # a.view => SubsOfNext(v) = SubsOf(v)
             /\ \A d \in DerivedIds : derived'[d].index = derived[d].index
             /\ UNCHANGED <<heap, array, index, filters, compareFn, reversed>>]_vars

\* C5 witness: subscribe on a derived view while the parent has a subscriber:
\* the new handler alone was invoked, and it is last in the derived view's list
C5_Witness ==
    /\ last.op = "subscribe"
    /\ last.arg.view \in DerivedIds
    /\ Len(subscriptions) > 0
    /\ Len(calls) = 1
    /\ calls[1].view = last.arg.view
    /\ calls[1].reg = last.arg.reg
    /\ derived[last.arg.view].subscriptions[Len(derived[last.arg.view].subscriptions)].reg
           = last.arg.reg

\* C6 (as claimed): the function returned by subscribe call r removes the
\* registration made by that call and nothing else; once that registration is
\* gone, invoking it leaves the handler list unchanged.
C6_UnsubscribeOwnRegistration ==
    [][last'.op = "unsubscribe" =>
          LET a == last'.arg
          IN HandlersOf(SubsOfNext(a.view)) =
                 HandlersOf(SelectSeq(SubsOf(a.view), LAMBDA e : e.reg # a.reg))]_vars

\* ------------------------------------------------------------ derived views
\* the last operation recomputed the parent view
ParentRecomputed ==
    \/ last.op \in {"setData", "reversed"}
    \/ /\ last.op \in {"filters.add", "filters.remove", "filters.clear",
                       "sort.set", "sort.clear"}
       /\ last.arg.view = 0

\* the positions derived view d shows in the current state
DerivedNow(d) == DerivedPos(derived[d].index, index, Backing)

\* every derived view's ordering is the rebuild with its own filters and
\* comparator over the current backing sequence
DerivedFresh ==
    \A d \in DerivedIds :
        derived[d].exists =>
            derived[d].index = Rebuild(Backing, derived[d].filters, derived[d].compareFn,
                                       Keys(Len(Backing)))

C11_DerivedWithinParentVisible ==
    \A d \in DerivedIds :
        derived[d].exists =>
            Range(DerivedNow(d)) =
                {p \in Range(VisiblePos(index, Backing)) :
                    \A i \in 1..Len(derived[d].filters) :
                        Accept(derived[d].filters[i], Elem(Backing, p))}

\* C12: the data reference read through every derived view is the parent's
\* current data reference, whatever setData calls were made since the derived
\* view was created.
C12_DerivedDataIsParentData ==
    \A d \in DerivedIds :
        derived[d].exists => derivedData(derived[d].array, array) = array

\* C12 witness: a derived view exists, a replacing setData has installed
\* another sequence than the one the store held, and the derived view reads
\* the new sequence and shows positions of it
C12_Witness ==
    /\ ReplacedStore(last)
    /\ array # last.arg.was
    /\ \E d \in DerivedIds :
          /\ derived[d].exists
          /\ derivedData(derived[d].array, array) = array
          /\ derivedData(derived[d].array, array) # last.arg.was
          /\ Len(DerivedNow(d)) > 0

\* ----------------------------------------------------------- error handling
Threw(l) == l.op \in {"setData.throws", "reversed.throws"}

\* C13: a setData call or a reversed assignment that throws leaves the store
\* reference and contents, the reversed flag, the virtual ordering and the
\* subscriber list as they were and invokes no subscriber; afterwards the view
\* still accepts a reversed assignment and a setData call.
C13_ThrowLeavesViewUnchanged ==
    /\ [][Threw(last') =>
             /\ array' = array
             /\ heap' = heap
             /\ reversed' = reversed
             /\ indexReversed' = indexReversed
             /\ index' = index
             /\ filters' = filters
             /\ compareFn' = compareFn
             /\ subscriptions' = subscriptions
             /\ derived' = derived
             /\ calls' = << >>]_vars
    /\ [](Threw(last) => (ENABLED SetReversed /\ ENABLED setData(NullData, FALSE)))

\* C13 witness: setData threw on a view that holds data behind an active
\* index, has reversed set and a subscriber, and none of it was touched
C13_Witness ==
    /\ last.op = "setData.throws"
    /\ Len(Backing) = 2
    /\ index.active
    /\ Len(index.pos) = 1
    /\ reversed
    /\ Len(subscriptions) > 0
    /\ calls = << >>

\* ---------------------------------------------------------- forced recompute
\* the last operation was a forced recompute that changes no data, filter,
\* comparator or flag: index.update(true), or reversed assigned its own value
ForcedRecompute(l, rev) ==
    l.op = "index.update" \/ (l.op = "reversed" /\ l.arg.value = rev)

\* C14 (as claimed): every forced recompute with nothing changed invokes each
\* handler subscribed to the view once and shows the visible sequence the
\* view showed before it, so the second of two consecutive ones yields the
\* same sequence as the first and notifies again.
C14_ForcedTwiceNotifiesAll ==
    [][ForcedRecompute(last', reversed) =>
          /\ Visible' = Visible
          /\ Length(heap', array', index') = Length(heap, array, index)
          /\ \A i \in 1..Len(subscriptions) :
                Invocations(calls', 0, subscriptions[i].reg) = 1]_vars

\* ------------------------------------------------------ inactive-index path
\* C15: while the view has no filter and no comparator, iteration yields the
\* backing sequence's elements in storage order, in reverse storage order when
\* reversed is set, and length is the backing sequence's length (0 when the
\* store is absent).
C15_InactiveFastPath ==
    (filters = << >> /\ compareFn = NoCompare) =>
        /\ Visible = IF reversed THEN Reverse(Backing) ELSE Backing
        /\ Length(heap, array, index) = Len(Backing)
        /\ array = Null => Length(heap, array, index) = 0

\* C15 witness: the last filter or the comparator was just removed from a
\* reversed view over two different elements, which it iterates last first
C15_Witness ==
    /\ last.op \in {"filters.clear", "filters.remove", "sort.clear"}
    /\ filters = << >> /\ compareFn = NoCompare
    /\ reversed
    /\ Len(Backing) = 2
    /\ Backing[1] # Backing[2]
    /\ Visible = <<Backing[2], Backing[1]>>

\* C18: an active virtual ordering holds pairwise distinct positions, each a
\* valid position of the current backing sequence, so it is never longer than
\* the backing sequence, also after setData shrank or cleared it.
C18_IndexPositionsValid ==
    index.active =>
        /\ \A i \in 1..Len(index.pos) :
              index.pos[i] \in 0..(Len(Backing) - 1)
        /\ \A i, j \in 1..Len(index.pos) : i # j => index.pos[i] # index.pos[j]
        /\ Len(index.pos) <= Len(Backing)

\* C18 witness: under an active comparator setData replaced a sequence of two
\* elements by a sequence of one, and the ordering holds position 0 alone
C18_Witness ==
    /\ ReplacedStore(last)
    /\ array # last.arg.was
    /\ Len(heap[last.arg.was]) = 2
    /\ Len(Backing) = 1
    /\ compareFn # NoCompare
    /\ index.active
    /\ index.pos = <<0>>

\* C19: the length getter equals the number of elements one full iteration of
\* the view yields, with the index active or inactive and the store absent,
\* empty or non-empty.
C19_LengthIsIterationCount ==
    Length(heap, array, index) = Len(Visible)

\* C19 witness: a filter hides one of two stored elements, and both the
\* length and the iteration count are 1
C19_Witness ==
    /\ index.active
    /\ Len(filters) > 0
    /\ Len(Backing) = 2
    /\ Length(heap, array, index) = 1
    /\ Len(Visible) = 1

\* ------------------------------------------------------- notification order
\* C16 (as claimed): the handlers one operation invokes on a view are invoked
\* in the order of the subscribe calls that registered them.
C16_NotifiesInSubscriptionOrder ==
    \A k, m \in 1..Len(calls) :
        (k < m /\ calls[k].view = calls[m].view) => calls[k].reg < calls[m].reg

\* ------------------------------------------------- what the handlers observe
\* the sequence the filters, the comparator and the reversed flag of the
\* current state yield over the current backing contents
ExpectedVisible ==
    LET kept == SelectSeq(Keys(Len(Backing)), LAMBDA p : AcceptedByAll(Elem(Backing, p)))
        ordered == IF compareFn # NoCompare THEN StableSort(kept, compareFn, Backing)
                   ELSE kept
        elems == [i \in 1..Len(ordered) |-> Elem(Backing, ordered[i])]
    IN IF reversed THEN Reverse(elems) ELSE elems

\* C17: every handler an operation invoked, in a notification or in the
\* immediate call of subscribe, read a length and an iterated sequence that
\* are the result of the current filters, comparator and reversed flag over
\* the current backing contents.
C17_HandlersObserveRebuiltView ==
    \A k \in 1..Len(calls) :
        /\ calls[k].seen.iter = ExpectedVisible
        /\ calls[k].seen.len = Len(ExpectedVisible)

\* C17 witness: setData put two elements into the store of a view whose filter
\* accepts one of them, and the subscriber it notified read that one element
C17_Witness ==
    /\ last.op = "setData"
    /\ Len(filters) > 0
    /\ Len(Backing) = 2
    /\ Len(calls) > 0
    /\ calls[1].view = 0
    /\ calls[1].seen.len = 1
    /\ calls[1].seen.iter = ExpectedVisible

\* C20 (as claimed): in the notifications a setData call makes, on the parent
\* and on each derived view, every handler that was subscribed when the call
\* began and is still subscribed when it returns was invoked exactly once,
\* also when a handler called its unsubscribe function while it was invoked.
C20_UnsubscribeDuringNotification ==
    [][last'.op = "setData" =>
          \A v \in {0} \cup DerivedIds : \A i \in 1..Len(SubsOf(v)) :
              (\E j \in 1..Len(SubsOfNext(v)) :
                    SubsOfNext(v)[j].reg = SubsOf(v)[i].reg)
                  => Invocations(calls', v, SubsOf(v)[i].reg) = 1]_vars

====
